---- MODULE Spec2Model ----
(***************************************************************************)
(* Model of hipSYCL's sycl::queue (include/hipSYCL/sycl/queue.hpp) and of  *)
(* the registry of submitted operations, rt::dag_submitted_ops.            *)
(*                                                                         *)
(* Host threads call queue::submit (plain or with a secondary queue); the  *)
(* runtime submits recorded nodes to the backend, registers them with the  *)
(* registry and completes them; nodes without owners are reclaimed.        *)
(***************************************************************************)
EXTENDS Integers, Sequences, FiniteSets, TLC

\* ---------------------------------------------------------------- bounds
\* dag nodes ever created
MaxNodes == 3
\* operations one command group function records
MaxOps == 2
\* errors ever appended to the runtime's error list
MaxErrors == 2
\* hook registrations per queue
MaxHookIds == 3
\* dag nodes created while failover submits are explored
MaxFailoverNodes == 2
\* nodes recorded in the runs that exercise the registry's waits and queries
MaxTrackedNodes == 2

\* ---------------------------------------------------------------- universe
Queues == {1, 2}
Threads == {1, 2}
Helpers == {1, 2}
Devices == {1, 2}
Groups == {1, 2}
NodeIds == 1..MaxNodes

\* nullptr dag_node_ptr / empty weak_ptr / absent hint
Null == 0
\* mutex not held
NoThread == 0

\* A queue's device is the one its constructor passes to init().
QueueDevice(q) == q
\* The queue an automatic_placeholder_requirement_impl was constructed on.
HelperQueue(h) == 1

\* rt::execution_hints: at most one value per kind, Null when absent.
HintKinds == {"bind_to_device", "enable_profiling", "node_group"}
NoHints == [k \in HintKinds |-> Null]

\* execution_hints::add_hint
AddHint(h, k, v) == [h EXCEPT ![k] = v]

\* execution_hints::overwrite_with: kinds present in other replace, the rest stay
OverwriteWith(h, other) ==
  [k \in HintKinds |-> IF other[k] # Null THEN other[k] ELSE h[k]]

VARIABLES
  isInOrder,       \* queue::_is_in_order
  defaultHints,    \* queue::_default_hints
  lock,            \* queue::_lock: the thread holding it, or NoThread
  previous,        \* queue::_previous_submission (weak): a node id or Null
  hooks,           \* queue::_hooks: sequence of [id, helper]
  nextId,          \* next id the queue's function_set hands out
  isRequired,      \* automatic_placeholder_requirement_impl::_is_required
  hookId,          \* automatic_placeholder_requirement_impl::_hook_id
  pc,              \* where each thread is
  call,            \* arguments and locals of the thread's current call
  cgh,             \* the sycl::handler the thread's submit built
  node,            \* the dag nodes created so far
  numNodes,        \* how many
  submitted,       \* nodes with is_submitted()
  complete,        \* nodes with is_complete()
  alive,           \* nodes some shared_ptr still owns
  errors,          \* the runtime's error list
  numErrors,       \* errors ever appended
  ops,             \* dag_submitted_ops::_ops
  opsLock,         \* dag_submitted_ops::_lock: the thread holding it
  last,            \* history: the node the queue's latest submit call returned
  extracted        \* history: the node the queue's latest submit call that did
                   \* not throw extracted

qvars == <<isInOrder, defaultHints, lock, previous>>
hvars == <<hooks, nextId, isRequired, hookId>>
tvars == <<pc, call, cgh>>
nvars == <<node, numNodes, submitted, complete, alive>>
vars == <<isInOrder, defaultHints, lock, previous, hooks, nextId, isRequired,
          hookId, pc, call, cgh, node, numNodes, submitted,
          complete, alive, errors, numErrors, ops, opsLock, last,
          extracted>>
evars == <<errors, numErrors>>
rvars == <<ops, opsLock>>
lvars == <<last, extracted>>

\* ---------------------------------------------------------------- queue
\* queue::init (with the property list the constructor was given)
QueueInitHints(dev, profiling) ==
  LET h == AddHint(NoHints, "bind_to_device", dev)
  IN  IF profiling THEN AddHint(h, "enable_profiling", 1) ELSE h

\* queue::get_device: the device of the default hints, Null for device{}
GetDevice(q) == defaultHints[q]["bind_to_device"]

\* is_in_order answering true for every queue
IsInOrderAlways(q) == TRUE

\* queue::is_in_order
IsInOrder(q) == isInOrder[q]

\* a reference that still yields the node after its last owner is gone
WeakLockExpired(p) == p

\* std::weak_ptr::lock: the node while somebody owns it, nullptr after
WeakLock(p) == IF p \in alive THEN p ELSE Null

\* submit without the lock_guard
LockFreeAlways(q) == TRUE

\* std::lock_guard on queue::_lock can be taken
LockFree(q) == lock[q] = NoThread

\* a lock_guard that is never destroyed
UnlockedNever(q) == lock

\* the lock_guard of line 230 goes out of scope (return or exception)
Unlocked(q) == [lock EXCEPT ![q] = NoThread]

\* the handler built from custom_hints instead of the overlaid defaults
SubmitHintsCustomOnly(dflt, retarget) ==
  IF retarget # Null
    THEN AddHint(NoHints, "bind_to_device", retarget)
    ELSE dflt

\* queue::submit, lines 232-255: the hints the handler is built with
SubmitHints(dflt, retarget) ==
  IF retarget # Null
    THEN OverwriteWith(dflt, AddHint(NoHints, "bind_to_device", retarget))
    ELSE dflt

\* a submit that overlays the retarget on _default_hints itself
DefaultHintsRetargeted(q, retarget) == SubmitHints(defaultHints[q], retarget)

\* queue::submit, line 232: hints is a copy of _default_hints, which the
\* overlay of line 254 therefore does not reach
DefaultHintsAfter(q, retarget) == defaultHints[q]

\* apply_preferred_group_size<1>, <2>, <3>: one call on the handler per
\* dimension the property list carries, in this order
RECURSIVE PreferredGroupSizeLog(_, _)
PreferredGroupSizeLog(pgs, dim) ==
  IF dim > 3 THEN <<>>
  ELSE (IF dim \in pgs THEN <<[kind |-> "pgs", id |-> dim]>> ELSE <<>>)
       \o PreferredGroupSizeLog(pgs, dim + 1)

\* function_set::run_all: every registered function, in registration order
RunAll(fs) == [i \in 1..Len(fs) |-> [kind |-> "hook", id |-> fs[i].id]]

\* the hooks run before the preferred group sizes are applied
SubmitLogHooksFirst(fs, pgs) == RunAll(fs) \o PreferredGroupSizeLog(pgs, 1)

\* queue::submit, lines 259-263: what happens to the handler before
\* execute_submission
SubmitLog(fs, pgs) == PreferredGroupSizeLog(pgs, 1) \o RunAll(fs)

\* queue::execute_submission, lines 649-653: the strong reference taken
\* from _previous_submission
PreviousLocked(q) == IF IsInOrder(q) THEN WeakLock(previous[q]) ELSE Null

\* extract_dag_node without the empty() check: back() of an empty vector
\* yields some stale node pointer
ExtractDagNodeUnchecked(dag_nodes) ==
  IF dag_nodes = <<>> THEN 1 ELSE dag_nodes[Len(dag_nodes)]

\* extract_dag_node returning front() instead of back()
ExtractDagNodeFront(dag_nodes) ==
  IF dag_nodes = <<>> THEN Null ELSE dag_nodes[1]

\* queue::extract_dag_node
ExtractDagNode(dag_nodes) ==
  IF dag_nodes = <<>> THEN Null ELSE dag_nodes[Len(dag_nodes)]

\* execute_submission that never stores the new node
PreviousAfterKeep(q, n) == previous[q]

\* execute_submission that stores the new node only if there is one
PreviousAfterIfNode(q, n) ==
  IF IsInOrder(q) /\ n # Null THEN n ELSE previous[q]

\* queue::execute_submission, lines 658-660
PreviousAfter(q, n) == IF IsInOrder(q) THEN n ELSE previous[q]

\* ---------------------------------------------------------------- registry
\* erase_completed_nodes: std::remove_if keeps the incomplete nodes in
\* their order, erase drops the tail
RECURSIVE RemoveIfComplete(_)
RemoveIfComplete(v) ==
  IF v = <<>> THEN <<>>
  ELSE IF Head(v) \in complete
         THEN RemoveIfComplete(Tail(v))
         ELSE <<Head(v)>> \o RemoveIfComplete(Tail(v))

\* update_with_submission without the pruning
EraseNothing(v) == v

\* an erase that drops every tracked node
EraseAllNodes(v) == <<>>

\* erase_completed_nodes, lines 904-909
EraseCompletedNodes(v) == RemoveIfComplete(v)

\* dag_submitted_ops::update_with_submission (its assert is the caller's
\* duty: single_node is submitted)
UpdateWithSubmission(v, single_node) ==
  Append(EraseCompletedNodes(v), single_node)

\* every node taken for a member of every group
NodeGroupMatchesAny(n, node_group) == TRUE

\* lines 955-957 and 974-976: the node carries a hints::node_group and its
\* id is node_group
NodeGroupMatches(n, node_group) ==
  /\ node[n].hints["node_group"] # Null
  /\ node[n].hints["node_group"] = node_group

\* a wait that blocks on nothing
WaitsOnNothing(kind, n, node_group) == FALSE

\* Whether the loop of a wait calls node->wait() on n: wait_for_all on
\* every node (lines 929-932), wait_for_group on the members of the group
\* (lines 953-964).
WaitsOn(kind, n, node_group) ==
  IF kind = "wait_for_group" THEN NodeGroupMatches(n, node_group) ELSE TRUE

\* get_group that leaves out the nodes that are already complete
GetGroupPending(v, node_group) ==
  SelectSeq(v, LAMBDA n : NodeGroupMatches(n, node_group) /\ n \notin complete)

\* dag_submitted_ops::get_group, the loop of lines 972-980
GetGroup(v, node_group) ==
  SelectSeq(v, LAMBDA n : NodeGroupMatches(n, node_group))

\* the lock_guard of wait_for_all / wait_for_group living for the whole call
LockAfterSnapshotHeld(t) == t

\* lines 924-927 and 940-943: the lock_guard's block ends after the copy
LockAfterSnapshot(t) == NoThread

\* ---------------------------------------------------------------- hooks
\* function_set::remove: unknown ids are ignored
RemoveHook(fs, id) == SelectSeq(fs, LAMBDA f : f.id # id)

\* ---------------------------------------------------------------- init
\* A thread's call: the arguments, the locals of submit or of the registry
\* operation (current_ops and the loop position, get_group's result), and
\* (history) what the call has done so far: for a registry operation the
\* collection it found under the lock (tracked), for queue::wait whether
\* the flush and the bulk wait are done and which nodes submit had
\* returned before the call began (before); for submit(cgf, secondaryQueue)
\* whether control is inside the try block of lines 279-312 (inTry), how
\* often the call has begun a submit on the primary and on the secondary
\* queue and has invoked cgf, and what the first submission to the
\* secondary queue threw (threw2), the second reading of the error count
\* (errEnd) and the secondary queue's _previous_submission when the call
\* began (secPrev); for every submit the node the queue's latest call
\* that did not throw had extracted, and whether it was still owned, when
\* this call took the lock (lastOk, lastOkAlive).
NoCall ==
  [kind |-> "none", q |-> Null, sec |-> Null, retarget |-> Null, pgs |-> {},
   phase |-> "plain", prev |-> Null, last |-> Null, lastAlive |-> FALSE,
   nops |-> 0, errBegin |-> 0, seqBegin |-> 0, evt1 |-> Null,
   threw1 |-> "none", failed |-> FALSE, ret |-> Null, raised |-> "none",
   hooks |-> <<>>, checked |-> FALSE, grew |-> FALSE, newKernel |-> FALSE,
   group |-> Null, current_ops |-> <<>>, pos |-> 0, result |-> <<>>,
   tracked |-> <<>>, flushed |-> FALSE, before |-> {}, waited |-> FALSE,
   inTry |-> FALSE, nPrimary |-> 0, nSecondary |-> 0, ncgf |-> 0,
   threw2 |-> "none", errEnd |-> 0, secPrev |-> Null,
   lastOk |-> Null, lastOkAlive |-> FALSE]

NoCgh == [hints |-> NoHints, deps |-> {}, log |-> <<>>, nodes |-> <<>>]

\* A dag node: its requirements and hints; and (history) the queue whose
\* handler recorded it, the requirements the user's callback added, the
\* previous submission its handler was made to depend on, and whether
\* submit returned it as the event's node.
NoNode == [q |-> Null, deps |-> {}, hints |-> NoHints, udeps |-> {},
           pred |-> Null, handle |-> FALSE]

\* The property lists the two queues are constructed with:
\* queue 1 {in_order, enable_profiling}, queue 2 {}.
HasInOrderProperty(q) == q = 1
HasProfilingProperty(q) == q = 1

Init ==
  /\ isInOrder = [q \in Queues |-> HasInOrderProperty(q)]
  /\ defaultHints =
       [q \in Queues |-> QueueInitHints(QueueDevice(q), HasProfilingProperty(q))]
  /\ lock = [q \in Queues |-> NoThread]
  /\ previous = [q \in Queues |-> Null]
  /\ hooks = [q \in Queues |-> <<>>]
  /\ nextId = [q \in Queues |-> 1]
  /\ isRequired = [h \in Helpers |-> FALSE]
  /\ hookId = [h \in Helpers |-> Null]
  /\ pc = [t \in Threads |-> "idle"]
  /\ call = [t \in Threads |-> NoCall]
  /\ cgh = [t \in Threads |-> NoCgh]
  /\ node = [n \in NodeIds |-> NoNode]
  /\ numNodes = 0
  /\ submitted = {}
  /\ complete = {}
  /\ alive = {}
  /\ errors = <<>>
  /\ numErrors = 0
  /\ ops = <<>>
  /\ opsLock = NoThread
  /\ last = [q \in Queues |-> Null]
  /\ extracted = [q \in Queues |-> Null]

\* ---------------------------------------------------------------- submit
\* What a command group function may throw: a sycl::exception (or a class
\* derived from it) or anything else.
ExceptionKinds == {"sycl", "other"}

\* rt::error_type of a recorded error
ErrorTypes == {"kernel_error", "memory_allocation_error"}

RetargetChoices == {Null} \cup Devices
PgsChoices == {{}, {1, 3}}

\* What the user hands to handler::depends_on inside the callback: nothing,
\* or the event the latest successful submit returned.
UserDeps ==
  LET held == {m \in alive : node[m].handle}
  IN  {{}} \cup {{n} : n \in {m \in held : \A l \in held : l <= m}}

\* A thread calls submit(prop_list, cgf) on queue q; the property list
\* carries hipSYCL_retarget{r} unless r is Null, and
\* hipSYCL_prefer_group_size<d> for the d in g.
CallSubmit(t, q, r, g) ==
  /\ pc[t] = "idle"
  /\ call' = [call EXCEPT ![t] =
                [NoCall EXCEPT !.kind = "plain", !.q = q, !.retarget = r,
                               !.pgs = g]]
  /\ pc' = [pc EXCEPT ![t] = "lock"]
  /\ UNCHANGED <<qvars, hvars, cgh, nvars, evars, rvars, lvars>>

\* queue::submit, lines 230-263, and execute_submission, lines 649-653:
\* take the queue's lock, merge the hints, build the handler, apply the
\* preferred group sizes, run the hooks, depend on the previous submission.
SubmitBegin(t) ==
  LET q == call[t].q
      prev == PreviousLocked(q)
  IN  /\ pc[t] = "lock"
      /\ LockFree(q)
      /\ lock' = [lock EXCEPT ![q] = t]
      /\ cgh' = [cgh EXCEPT ![t] =
                   [hints |-> SubmitHints(defaultHints[q], call[t].retarget),
                    deps  |-> IF prev # Null THEN {prev} ELSE {},
                    log   |-> SubmitLog(hooks[q], call[t].pgs)
                                \o (IF prev # Null
                                      THEN <<[kind |-> "depends_on", id |-> prev]>>
                                      ELSE <<>>),
                    nodes |-> <<>>]]
      /\ call' = [call EXCEPT ![t].prev = prev, ![t].last = last[q],
                              ![t].lastAlive = (last[q] \in alive),
                              ![t].lastOk = extracted[q],
                              ![t].lastOkAlive = (extracted[q] \in alive),
                              ![t].nops = 0,
                              ![t].nPrimary =
                                 IF call[t].phase = "primary" THEN @ + 1 ELSE @,
                              ![t].nSecondary =
                                 IF call[t].phase = "secondary" THEN @ + 1 ELSE @,
                              ![t].hooks = [i \in 1..Len(hooks[q]) |-> hooks[q][i].id]]
      /\ defaultHints' =
           [defaultHints EXCEPT ![q] = DefaultHintsAfter(q, call[t].retarget)]
      /\ pc' = [pc EXCEPT ![t] = "cgf"]
      /\ UNCHANGED <<isInOrder, previous, hvars, nvars, evars, rvars, lvars>>

\* no catch clause
CatchesNothing(thrown) == FALSE

\* lines 313-315: catch(exception&) names sycl::exception
Catches(thrown) == thrown = "sycl"

\* An exception leaves submit: the lock_guard releases the lock,
\* _previous_submission is not assigned.  In submit(cgf, secondaryQueue) the
\* catch clause of lines 313-315 takes an exception thrown inside the try
\* block, by the primary submission or by the submission to the secondary
\* queue of line 311, and submits to the secondary queue from outside it.
Unwind(t, thrown) ==
  LET q == call[t].q
      hist == [call[t] EXCEPT
                 !.ncgf = @ + 1,
                 !.threw1 = IF call[t].phase = "primary" THEN thrown ELSE @,
                 !.threw2 = IF call[t].phase = "secondary" /\ @ = "none"
                              THEN thrown ELSE @]
  IN  /\ lock' = Unlocked(q)
      /\ last' = [last EXCEPT ![q] = Null]
      /\ UNCHANGED extracted
      /\ IF call[t].inTry /\ Catches(thrown)
           THEN /\ call' = [call EXCEPT ![t] =
                              [hist EXCEPT !.q = call[t].sec,
                                           !.phase = "secondary",
                                           !.inTry = FALSE]]
                /\ pc' = [pc EXCEPT ![t] = "lock"]
           ELSE /\ call' = [call EXCEPT ![t] = [hist EXCEPT !.raised = thrown]]
                /\ pc' = [pc EXCEPT ![t] = "thrown"]

\* queue::execute_submission, line 655: cgf(cgh).  The command group
\* function adds the dependencies ud, records k operations on the handler,
\* each becoming a dag node (tagged with node group g unless g is Null)
\* that requires what the handler was told to depend on, and then returns
\* or throws.
Callback(t, k, thrown, g, ud) ==
  LET new == (numNodes + 1)..(numNodes + k)
      rec == [q |-> call[t].q,
              deps |-> cgh[t].deps \cup ud,
              hints |-> IF g # Null
                          THEN AddHint(cgh[t].hints, "node_group", g)
                          ELSE cgh[t].hints,
              udeps |-> ud,
              pred |-> call[t].prev,
              handle |-> FALSE]
  IN  /\ pc[t] = "cgf"
      /\ numNodes + k <= MaxNodes
      /\ node' = [n \in NodeIds |-> IF n \in new THEN rec ELSE node[n]]
      /\ numNodes' = numNodes + k
      /\ alive' = alive \cup new
      /\ cgh' = [cgh EXCEPT
                   ![t].nodes = @ \o [i \in 1..k |-> numNodes + i],
                   ![t].deps = @ \cup ud,
                   ![t].log = Append(@, [kind |-> "cgf", id |-> k])]
      /\ IF thrown = "none"
           THEN /\ pc' = [pc EXCEPT ![t] = "extract"]
                /\ call' = [call EXCEPT ![t].nops = k, ![t].ncgf = @ + 1]
                /\ UNCHANGED <<lock, lvars>>
           ELSE Unwind(t, thrown)
      /\ UNCHANGED <<isInOrder, defaultHints, previous, hvars, submitted,
                     complete, evars, rvars>>

\* queue::execute_submission, lines 657-661, and the return of submit:
\* extract the node, store it as the previous submission of an in-order
\* queue, release the lock, return event{node, _handler}.
SubmitFinish(t) ==
  LET q == call[t].q
      n == ExtractDagNode(cgh[t].nodes)
  IN  /\ pc[t] = "extract"
      /\ previous' = [previous EXCEPT ![q] = PreviousAfter(q, n)]
      /\ lock' = Unlocked(q)
      /\ last' = [last EXCEPT ![q] = n]
      /\ extracted' = [extracted EXCEPT ![q] = n]
      /\ IF call[t].phase = "primary"
           THEN /\ call' = [call EXCEPT ![t].evt1 = n]
                /\ pc' = [pc EXCEPT ![t] = "fo_flush"]
           ELSE /\ call' = [call EXCEPT ![t].ret = n]
                /\ pc' = [pc EXCEPT ![t] = "ret"]
      /\ node' = IF n # Null THEN [node EXCEPT ![n].handle = TRUE] ELSE node
      /\ UNCHANGED <<isInOrder, defaultHints, hvars, cgh, numNodes,
                     submitted, complete, alive, evars, rvars>>

\* event::wait on the returned event: nothing to wait for without a node,
\* else until the node is complete.
EventComplete(e) == e = Null \/ e \in complete

EventWait(t) ==
  /\ pc[t] = "ret"
  /\ pc' = [pc EXCEPT ![t] = "ev_wait"]
  /\ UNCHANGED <<qvars, hvars, call, cgh, nvars, evars, rvars, lvars>>

EventWaitReturn(t) ==
  /\ pc[t] = "ev_wait"
  /\ EventComplete(call[t].ret)
  /\ pc' = [pc EXCEPT ![t] = "ret"]
  /\ UNCHANGED <<qvars, hvars, call, cgh, nvars, evars, rvars, lvars>>

\* ---------------------------------------------------------------- failover
\* A thread calls submit(cgf, secondaryQueue, prop_list) on queue q.
CallFailover(t, q, sec, r) ==
  /\ pc[t] = "idle"
  /\ sec # q
  /\ call' = [call EXCEPT ![t] =
                [NoCall EXCEPT !.kind = "failover", !.q = q, !.sec = sec,
                               !.retarget = r, !.phase = "primary",
                               !.inTry = TRUE, !.secPrev = previous[sec]]]
  /\ pc' = [pc EXCEPT ![t] = "fo_begin"]
  /\ UNCHANGED <<qvars, hvars, cgh, nvars, evars, rvars, lvars>>

\* lines 281-282: num_errors_begin
FailoverBegin(t) ==
  /\ pc[t] = "fo_begin"
  /\ call' = [call EXCEPT ![t].errBegin = Len(errors),
                          ![t].seqBegin = numErrors]
  /\ pc' = [pc EXCEPT ![t] = "lock"]
  /\ UNCHANGED <<qvars, hvars, cgh, nvars, evars, rvars, lvars>>

\* dag_manager::flush_sync: every recorded node reaches the backend and
\* the registry, oldest first
RECURSIVE FlushOps(_, _)
FlushOps(v, n) ==
  IF n > numNodes THEN v
  ELSE FlushOps(IF n \in submitted THEN v ELSE UpdateWithSubmission(v, n), n + 1)

\* line 286
FailoverFlush(t) ==
  /\ pc[t] = "fo_flush"
  /\ opsLock = NoThread
  /\ submitted' = 1..numNodes
  /\ ops' = FlushOps(ops, 1)
  /\ pc' = [pc EXCEPT ![t] = "fo_check"]
  /\ UNCHANGED <<qvars, hvars, call, cgh, node, numNodes, complete,
                 alive, evars, opsLock, lvars>>

\* the scan for a kernel error without the comparison of the counts
SubmissionFailedOnAnyKernelError(num_errors_begin, errs) ==
  \E i \in DOMAIN errs : errs[i].type = "kernel_error"

\* lines 294-305: submission_failed
SubmissionFailed(num_errors_begin, errs) ==
  /\ Len(errs) # num_errors_begin
  /\ \E i \in DOMAIN errs : errs[i].type = "kernel_error"

\* lines 288-311: num_errors_end, the scan of the error list, and the
\* return of the primary's event or the submission to the secondary queue
FailoverCheck(t) ==
  LET failed == SubmissionFailed(call[t].errBegin, errors)
      hist == [call[t] EXCEPT
                 !.failed = failed, !.checked = TRUE,
                 !.errEnd = Len(errors),
                 !.grew = (Len(errors) > call[t].errBegin),
                 !.newKernel = (\E i \in DOMAIN errors :
                                  /\ errors[i].seq > call[t].seqBegin
                                  /\ errors[i].type = "kernel_error")]
  IN  /\ pc[t] = "fo_check"
      /\ IF ~failed
           THEN /\ call' = [call EXCEPT ![t] = [hist EXCEPT !.ret = call[t].evt1]]
                /\ pc' = [pc EXCEPT ![t] = "ret"]
           ELSE /\ call' = [call EXCEPT ![t] =
                              [hist EXCEPT !.q = call[t].sec,
                                           !.phase = "secondary"]]
                /\ pc' = [pc EXCEPT ![t] = "lock"]
      /\ UNCHANGED <<qvars, hvars, cgh, nvars, evars, rvars, lvars>>

\* The backend records an error with the runtime's error list
\* (application::get_runtime().errors()).
BackendError(e) ==
  /\ numErrors < MaxErrors
  /\ errors' = Append(errors, [type |-> e, seq |-> numErrors + 1])
  /\ numErrors' = numErrors + 1
  /\ UNCHANGED <<qvars, hvars, tvars, nvars, rvars, lvars>>

\* queue::throw_asynchronous, lines 220-222 (from wait_and_throw or the
\* destructor of some queue): the error list is handed to the handler and
\* emptied.
ThrowAsynchronous ==
  /\ errors # <<>>
  /\ errors' = <<>>
  /\ UNCHANGED <<qvars, hvars, tvars, nvars, numErrors, rvars, lvars>>

\* The caller has the event or the exception; the handler is gone.
Return(t) ==
  /\ pc[t] \in {"ret", "thrown"}
  /\ pc' = [pc EXCEPT ![t] = "idle"]
  /\ call' = [call EXCEPT ![t] = NoCall]
  /\ cgh' = [cgh EXCEPT ![t] = NoCgh]
  /\ UNCHANGED <<qvars, hvars, nvars, evars, rvars, lvars>>

\* ---------------------------------------------------------------- runtime
Range(f) == {f[i] : i \in DOMAIN f}

\* The scheduler submits the oldest recorded node that is not yet submitted
\* to the backend and registers it:
\* dag_submitted_ops::update_with_submission(node).
\* a scheduler that registers a node it has not submitted
RuntimeRegistersUnsubmitted(n) ==
  /\ n \in 1..numNodes
  /\ n \notin submitted
  /\ n \notin Range(ops)
  /\ opsLock = NoThread
  /\ ops' = UpdateWithSubmission(ops, n)
  /\ UNCHANGED <<qvars, hvars, tvars, nvars, evars, opsLock, lvars>>

RuntimeSubmit(n) ==
  /\ n \in 1..numNodes
  /\ n \notin submitted
  /\ \A d \in 1..(n - 1) : d \in submitted
  /\ opsLock = NoThread
  /\ submitted' = submitted \cup {n}
  /\ ops' = UpdateWithSubmission(ops, n)
  /\ UNCHANGED <<qvars, hvars, tvars, node, numNodes, complete, alive, evars,
                 opsLock, lvars>>

\* The backend reports a submitted node complete.
Complete(n) ==
  /\ n \in submitted \ complete
  /\ \A d \in node[n].deps : d \in complete
  /\ complete' = complete \cup {n}
  /\ UNCHANGED <<qvars, hvars, tvars, node, numNodes, submitted, alive, evars,
                 rvars, lvars>>

\* References a running call holds on node n.
HeldByCall(t, n) ==
  \/ /\ pc[t] \in {"cgf", "extract"}
     /\ (n \in cgh[t].deps \/ n \in Range(cgh[t].nodes) \/ call[t].prev = n)
  \/ pc[t] \in {"fo_flush", "fo_check"} /\ call[t].evt1 = n
  \/ pc[t] = "ret" /\ (call[t].ret = n \/ n \in Range(call[t].result))
  \/ pc[t] = "reg_wait" /\ n \in Range(call[t].current_ops)

\* The last owner of a complete node lets go of it (the users destroy
\* their events); weak references to it expire.
Reclaim(n) ==
  /\ n \in alive
  /\ n \in complete
  /\ n \notin Range(ops)
  /\ \A t \in Threads : ~HeldByCall(t, n)
  /\ \A m \in alive \ complete : n \notin node[m].deps
  /\ alive' = alive \ {n}
  /\ UNCHANGED <<qvars, hvars, pc, call, cgh, node, numNodes, submitted,
                 complete, evars, rvars, lvars>>

\* ---------------------------------------------------------------- registry
RegistryWaits == {"wait_for_all", "wait_for_group", "wait", "wait_and_throw"}

\* A thread calls dag_submitted_ops::wait_for_all (rt::dag_manager::wait)
CallWaitForAll(t) ==
  /\ pc[t] = "idle"
  /\ call' = [call EXCEPT ![t] = [NoCall EXCEPT !.kind = "wait_for_all"]]
  /\ pc' = [pc EXCEPT ![t] = "reg_lock"]
  /\ UNCHANGED <<qvars, hvars, cgh, nvars, evars, rvars, lvars>>

\* A thread calls dag_submitted_ops::wait_for_group(node_group)
CallWaitForGroup(t, node_group) ==
  /\ pc[t] = "idle"
  /\ call' = [call EXCEPT ![t] = [NoCall EXCEPT !.kind = "wait_for_group",
                                                !.group = node_group]]
  /\ pc' = [pc EXCEPT ![t] = "reg_lock"]
  /\ UNCHANGED <<qvars, hvars, cgh, nvars, evars, rvars, lvars>>

\* A thread calls dag_submitted_ops::get_group(node_group)
CallGetGroup(t, node_group) ==
  /\ pc[t] = "idle"
  /\ call' = [call EXCEPT ![t] = [NoCall EXCEPT !.kind = "get_group",
                                                !.group = node_group]]
  /\ pc' = [pc EXCEPT ![t] = "reg_lock"]
  /\ UNCHANGED <<qvars, hvars, cgh, nvars, evars, rvars, lvars>>

\* std::lock_guard lock{_lock} of lines 925, 941 and 971
RegistryLock(t) ==
  /\ pc[t] = "reg_lock"
  /\ opsLock = NoThread
  /\ opsLock' = t
  /\ pc' = [pc EXCEPT ![t] = "reg_locked"]
  /\ UNCHANGED <<qvars, hvars, call, cgh, nvars, evars, ops, lvars>>

\* lines 926-927 and 942-943: current_ops = _ops, end of the locked block
Snapshot(t) ==
  /\ pc[t] = "reg_locked"
  /\ call[t].kind \in RegistryWaits
  /\ call' = [call EXCEPT ![t].current_ops = ops, ![t].pos = 1,
                          ![t].tracked = ops]
  /\ opsLock' = LockAfterSnapshot(t)
  /\ pc' = [pc EXCEPT ![t] = "reg_wait"]
  /\ UNCHANGED <<qvars, hvars, cgh, nvars, evars, ops, lvars>>

\* a loop over the tracked collection itself
WaitListLive(t) == ops

\* lines 929 and 953: the loop runs over the local copy current_ops
WaitList(t) == call[t].current_ops

\* lines 929-932 and 953-964: one turn of the loop over current_ops;
\* node->wait() returns when the node is complete
NodeWait(t) ==
  /\ pc[t] = "reg_wait"
  /\ call[t].pos <= Len(WaitList(t))
  /\ LET n == WaitList(t)[call[t].pos]
     IN  WaitsOn(call[t].kind, n, call[t].group) => n \in complete
  /\ call' = [call EXCEPT ![t].pos = @ + 1]
  /\ UNCHANGED <<qvars, hvars, pc, cgh, nvars, evars, rvars, lvars>>

\* The loop is over: wait_for_all / wait_for_group return; in
\* wait_and_throw (lines 215-218) throw_asynchronous comes next.
WaitReturn(t) ==
  /\ pc[t] = "reg_wait"
  /\ call[t].pos > Len(WaitList(t))
  /\ call' = [call EXCEPT ![t].waited = TRUE]
  /\ pc' = [pc EXCEPT ![t] = IF call[t].kind = "wait_and_throw"
                             THEN "wt_throw" ELSE "ret"]
  /\ UNCHANGED <<qvars, hvars, cgh, nvars, evars, rvars, lvars>>

\* lines 967-983: get_group scans _ops under the lock and returns the copy
GetGroupScan(t) ==
  /\ pc[t] = "reg_locked"
  /\ call[t].kind = "get_group"
  /\ call' = [call EXCEPT ![t].result = GetGroup(ops, call[t].group),
                          ![t].tracked = ops]
  /\ opsLock' = NoThread
  /\ pc' = [pc EXCEPT ![t] = "ret"]
  /\ UNCHANGED <<qvars, hvars, cgh, nvars, evars, ops, lvars>>

\* ---------------------------------------------------------------- wait
\* queue::wait (throws = FALSE) or queue::wait_and_throw (throws = TRUE)
\* is called on queue q.
CallWait(t, q, throws) ==
  /\ pc[t] = "idle"
  /\ call' = [call EXCEPT ![t] =
                [NoCall EXCEPT !.kind = IF throws THEN "wait_and_throw"
                                        ELSE "wait",
                               !.q = q,
                               !.before = {n \in 1..numNodes : node[n].handle}]]
  /\ pc' = [pc EXCEPT ![t] = "q_flush"]
  /\ UNCHANGED <<qvars, hvars, cgh, nvars, evars, rvars, lvars>>

\* queue::wait going to the bulk wait without the flush
WaitWithoutFlush(t) ==
  /\ pc[t] = "q_flush"
  /\ call' = [call EXCEPT ![t].flushed = TRUE]
  /\ pc' = [pc EXCEPT ![t] = "reg_lock"]
  /\ UNCHANGED <<qvars, hvars, cgh, nvars, evars, rvars, lvars>>

\* line 211: rt::application::dag().flush_sync(); line 212,
\* dag().wait(), is the registry's wait_for_all
WaitFlush(t) ==
  /\ pc[t] = "q_flush"
  /\ opsLock = NoThread
  /\ submitted' = 1..numNodes
  /\ ops' = FlushOps(ops, 1)
  /\ call' = [call EXCEPT ![t].flushed = TRUE]
  /\ pc' = [pc EXCEPT ![t] = "reg_lock"]
  /\ UNCHANGED <<qvars, hvars, cgh, node, numNodes, complete, alive, evars,
                 opsLock, lvars>>

\* line 217: this->throw_asynchronous() hands the recorded errors to the
\* queue's handler and empties the list
WaitAndThrowFinish(t) ==
  /\ pc[t] = "wt_throw"
  /\ errors' = <<>>
  /\ pc' = [pc EXCEPT ![t] = "ret"]
  /\ UNCHANGED <<qvars, hvars, call, cgh, nvars, numErrors, rvars, lvars>>

\* ---------------------------------------------------------------- helper
\* automatic_placeholder_requirement_impl::acquire, with function_set::add
Acquire(h) ==
  LET q == HelperQueue(h)
  IN  /\ nextId[q] <= MaxHookIds
      /\ hooks' = [hooks EXCEPT ![q] = Append(@, [id |-> nextId[q], helper |-> h])]
      /\ hookId' = [hookId EXCEPT ![h] = nextId[q]]
      /\ nextId' = [nextId EXCEPT ![q] = @ + 1]
      /\ isRequired' = [isRequired EXCEPT ![h] = TRUE]

\* the constructor
Construct(h) ==
  /\ hookId[h] = Null
  /\ Acquire(h)
  /\ UNCHANGED <<qvars, tvars, nvars, evars, rvars, lvars>>

\* reacquire without the test of _is_required
ReacquireUnconditionally(h) ==
  /\ hookId[h] # Null
  /\ Acquire(h)
  /\ UNCHANGED <<qvars, tvars, nvars, evars, rvars, lvars>>

\* automatic_placeholder_requirement_impl::reacquire
Reacquire(h) ==
  /\ hookId[h] # Null
  /\ IF ~isRequired[h] THEN Acquire(h) ELSE UNCHANGED hvars
  /\ UNCHANGED <<qvars, tvars, nvars, evars, rvars, lvars>>

\* automatic_placeholder_requirement_impl::release
Release(h) ==
  /\ hookId[h] # Null
  /\ hooks' = [hooks EXCEPT ![HelperQueue(h)] =
                 IF isRequired[h] THEN RemoveHook(@, hookId[h]) ELSE @]
  /\ isRequired' = [isRequired EXCEPT ![h] = FALSE]
  /\ UNCHANGED <<nextId, hookId, qvars, tvars, nvars, evars, rvars, lvars>>

\* the destructor: release if required; the object is gone
Destroy(h) ==
  /\ hookId[h] # Null
  /\ hooks' = [hooks EXCEPT ![HelperQueue(h)] =
                 IF isRequired[h] THEN RemoveHook(@, hookId[h]) ELSE @]
  /\ isRequired' = [isRequired EXCEPT ![h] = FALSE]
  /\ hookId' = [hookId EXCEPT ![h] = Null]
  /\ UNCHANGED <<nextId, qvars, tvars, nvars, evars, rvars, lvars>>

\* ---------------------------------------------------------------- specs
\* One thread submits to the two queues and waits on the events, while the
\* runtime submits, completes and reclaims nodes.
Next ==
  \/ \E q \in Queues : CallSubmit(1, q, Null, {})
  \/ SubmitBegin(1)
  \/ \E k \in 0..MaxOps : Callback(1, k, "none", Null, {})
  \/ Callback(1, 0, "sycl", Null, {})
  \/ SubmitFinish(1)
  \/ EventWait(1)
  \/ EventWaitReturn(1)
  \/ Return(1)
  \/ \E n \in NodeIds : RuntimeSubmit(n)
  \/ \E n \in NodeIds : Complete(n)
  \/ \E n \in NodeIds : Reclaim(n)

Spec == Init /\ [][Next]_vars

\* Two threads submit concurrently; every node stays owned.
NextConc ==
  \/ \E t \in Threads, q \in Queues : CallSubmit(t, q, Null, {})
  \/ \E t \in Threads : SubmitBegin(t)
  \/ \E t \in Threads, k \in 0..MaxOps, x \in {"none", "sycl"} :
       Callback(t, k, x, Null, {})
  \/ \E t \in Threads : SubmitFinish(t)
  \/ \E t \in Threads : Return(t)

SpecConc == Init /\ [][NextConc]_vars

\* One thread submits with and without a retarget property and with
\* explicit dependencies on the event it holds.
NextHints ==
  \/ \E q \in Queues, r \in RetargetChoices : CallSubmit(1, q, r, {})
  \/ SubmitBegin(1)
  \/ \E k \in 0..MaxOps, ud \in UserDeps : Callback(1, k, "none", Null, ud)
  \/ SubmitFinish(1)
  \/ Return(1)

SpecHints == Init /\ [][NextHints]_vars

\* One thread submits to queue 1 with and without preferred group sizes
\* while automatic requirements come and go on that queue.
NextHooks ==
  \/ \E g \in PgsChoices : CallSubmit(1, 1, Null, g)
  \/ SubmitBegin(1)
  \/ \E x \in {"none", "sycl"} : Callback(1, 1, x, Null, {})
  \/ SubmitFinish(1)
  \/ Return(1)
  \/ \E h \in Helpers : Construct(h)
  \/ \E h \in Helpers : Reacquire(h)
  \/ \E h \in Helpers : Release(h)
  \/ \E h \in Helpers : Destroy(h)

SpecHooks == Init /\ [][NextHooks]_vars

\* One thread submits with a secondary queue while the backend records
\* errors (a first one at any time, later ones between the flush and the
\* second reading of the error count) and some queue's wait_and_throw
\* consumes them.
NextFailover ==
  \/ \E q \in Queues, sec \in Queues : CallFailover(1, q, sec, Null)
  \/ FailoverBegin(1)
  \/ SubmitBegin(1)
  \/ \E k \in 0..MaxOps :
       numNodes + k <= MaxFailoverNodes /\ Callback(1, k, "none", Null, {})
  \/ \E k \in 0..1 :
       numNodes + k <= MaxFailoverNodes /\ Callback(1, k, "sycl", Null, {})
  \/ Callback(1, 0, "other", Null, {})
  \/ SubmitFinish(1)
  \/ FailoverFlush(1)
  \/ FailoverCheck(1)
  \/ Return(1)
  \/ \E e \in ErrorTypes :
       (numErrors = 0 \/ pc[1] = "fo_check") /\ BackendError(e)
  \/ ThrowAsynchronous

SpecFailover == Init /\ [][NextFailover]_vars

\* Thread 1 submits operations with and without a node group to the
\* out-of-order queue and queries groups; thread 2 waits on the registry;
\* the runtime submits and completes nodes.
NextRegistry ==
  \/ CallSubmit(1, 2, Null, {})
  \/ SubmitBegin(1)
  \/ \E g \in {Null} \cup Groups :
       numNodes < MaxTrackedNodes /\ Callback(1, 1, "none", g, {})
  \/ SubmitFinish(1)
  \/ \E g \in Groups : CallGetGroup(1, g)
  \/ CallWaitForAll(2)
  \/ \E g \in Groups : CallWaitForGroup(2, g)
  \/ \E t \in Threads : RegistryLock(t)
  \/ Snapshot(2)
  \/ NodeWait(2)
  \/ WaitReturn(2)
  \/ GetGroupScan(1)
  \/ \E t \in Threads : Return(t)
  \/ \E n \in NodeIds : RuntimeSubmit(n)
  \/ \E n \in NodeIds : Complete(n)

SpecRegistry == Init /\ [][NextRegistry]_vars

\* Thread 1 submits to the two queues; thread 2 calls wait or
\* wait_and_throw on queue 2; the runtime submits and completes nodes and
\* the backend records an error whenever none is pending.
NextWait ==
  \/ \E q \in Queues : CallSubmit(1, q, Null, {})
  \/ SubmitBegin(1)
  \/ numNodes < MaxTrackedNodes /\ Callback(1, 1, "none", Null, {})
  \/ SubmitFinish(1)
  \/ \E throws \in BOOLEAN : CallWait(2, 2, throws)
  \/ WaitFlush(2)
  \/ RegistryLock(2)
  \/ Snapshot(2)
  \/ NodeWait(2)
  \/ WaitReturn(2)
  \/ WaitAndThrowFinish(2)
  \/ \E t \in Threads : Return(t)
  \/ \E n \in NodeIds : RuntimeSubmit(n)
  \/ \E n \in NodeIds : Complete(n)
  \/ errors = <<>> /\ BackendError("kernel_error")

SpecWait == Init /\ [][NextWait]_vars

\* Two threads submit with a secondary queue, in either direction, while
\* thread 2 also waits on the registry and the backend completes nodes.
NextLocks ==
  \/ \E t \in Threads, q \in Queues, sec \in Queues :
       CallFailover(t, q, sec, Null)
  \/ \E t \in Threads : FailoverBegin(t)
  \/ \E t \in Threads : SubmitBegin(t)
  \/ \E t \in Threads :
       numNodes < MaxFailoverNodes /\ Callback(t, 1, "none", Null, {})
  \/ \E t \in Threads : Callback(t, 0, "sycl", Null, {})
  \/ \E t \in Threads : SubmitFinish(t)
  \/ \E t \in Threads : FailoverFlush(t)
  \/ \E t \in Threads : FailoverCheck(t)
  \/ \E t \in Threads : Return(t)
  \/ CallWaitForAll(2)
  \/ RegistryLock(2)
  \/ Snapshot(2)
  \/ NodeWait(2)
  \/ WaitReturn(2)
  \/ \E n \in NodeIds : Complete(n)

SpecLocks == Init /\ [][NextLocks]_vars

\* ---------------------------------------------------------------- claims
AfterSubmit == {"ret", "ev_wait"}
InSubmit == {"cgf", "extract"}

\* C1: on a queue constructed with in_order, when a submit call returns a
\* node and the submit call that held the lock right before it returned a
\* node too, which was still owned when the later call ran, then the later
\* node's dependency set contains the earlier node.
InOrderChainsConsecutive ==
  \A t \in Threads :
    (/\ pc[t] \in AfterSubmit
     /\ HasInOrderProperty(call[t].q)
     /\ call[t].ret # Null
     /\ call[t].last # Null
     /\ call[t].lastAlive)
    => call[t].last \in node[call[t].ret].deps

InOrderChainsConsecutiveWitness ==
  \E t \in Threads :
    /\ pc[t] = "ret"
    /\ HasInOrderProperty(call[t].q)
    /\ call[t].ret # Null
    /\ call[t].last # Null
    /\ call[t].lastAlive
    /\ call[t].last \in node[call[t].ret].deps

\* C2: on a queue constructed without in_order, submit leaves the previous
\* submission reference empty, takes no reference from it, and every node
\* recorded there requires exactly what the user's callback added.
OutOfOrderNoImplicitDependency ==
  /\ \A q \in Queues : ~HasInOrderProperty(q) => previous[q] = Null
  /\ \A t \in Threads :
       (pc[t] \in InSubmit \cup AfterSubmit /\ ~HasInOrderProperty(call[t].q))
       => /\ call[t].prev = Null
          /\ \A i \in DOMAIN cgh[t].log : cgh[t].log[i].kind # "depends_on"
  /\ \A n \in 1..numNodes :
       ~HasInOrderProperty(node[n].q) => node[n].deps = node[n].udeps

OutOfOrderNoImplicitDependencyWitness ==
  \E n \in 1..numNodes, m \in 1..numNodes :
    /\ m < n
    /\ ~HasInOrderProperty(node[n].q)
    /\ node[m].q = node[n].q
    /\ node[m].handle /\ node[n].handle
    /\ m \notin node[n].deps
    /\ \E l \in 1..numNodes :
         ~HasInOrderProperty(node[l].q) /\ node[l].deps # {}

\* C3: two threads are never both between taking and releasing the lock of
\* the same queue; while a thread is there on an in-order queue, the
\* previous submission reference is still the one it chained onto (its own
\* update will replace exactly that one); and no two nodes returned by
\* submit calls on an in-order queue were chained onto the same predecessor.
SubmitsSerialized ==
  /\ \A t \in Threads, u \in Threads :
       (t # u /\ pc[t] \in InSubmit /\ pc[u] \in InSubmit)
       => call[t].q # call[u].q
  /\ \A t \in Threads :
       (pc[t] \in InSubmit /\ HasInOrderProperty(call[t].q))
       => call[t].prev = previous[call[t].q]
  /\ \A n \in 1..numNodes, m \in 1..numNodes :
       (/\ n # m
        /\ node[n].handle /\ node[m].handle
        /\ node[n].q = node[m].q
        /\ HasInOrderProperty(node[n].q)
        /\ node[n].pred # Null)
       => node[n].pred # node[m].pred

SubmitsSerializedWitness ==
  \E t \in Threads, u \in Threads :
    /\ t # u
    /\ pc[t] = "extract" /\ pc[u] = "lock"
    /\ call[t].q = call[u].q
    /\ HasInOrderProperty(call[t].q)
    /\ call[t].prev # Null
    /\ node[call[t].prev].pred # Null

\* C4: the handler's hints are the queue's default hints, except that a
\* retarget property replaces the device binding and nothing else; the
\* nodes the handler records carry these hints.
SubmitHintsAreOverlay ==
  \A t \in Threads :
    pc[t] \in InSubmit \cup AfterSubmit =>
      LET dflt == defaultHints[call[t].q]
          h == cgh[t].hints
      IN  /\ h["bind_to_device"] =
               IF call[t].retarget # Null THEN call[t].retarget
               ELSE dflt["bind_to_device"]
          /\ \A k \in HintKinds \ {"bind_to_device"} : h[k] = dflt[k]
          /\ \A i \in DOMAIN cgh[t].nodes : node[cgh[t].nodes[i]].hints = h

SubmitHintsAreOverlayWitness ==
  \E t \in Threads :
    /\ pc[t] = "extract"
    /\ cgh[t].nodes # <<>>
    /\ defaultHints[call[t].q] =
         [NoHints EXCEPT !["bind_to_device"] = 1, !["enable_profiling"] = 1]
    /\ call[t].retarget = 2
    /\ cgh[t].hints =
         [NoHints EXCEPT !["bind_to_device"] = 2, !["enable_profiling"] = 1]

\* C5: a submit whose callback recorded nothing and returned goes on to
\* return an event without a node, and a wait on that event can return at
\* once.
ZeroNodeSubmitIsNoop ==
  \A t \in Threads :
    /\ (pc[t] = "extract" /\ cgh[t].nodes = <<>>) => ENABLED SubmitFinish(t)
    /\ (pc[t] \in AfterSubmit /\ cgh[t].nodes = <<>>)
       => call[t].ret = Null /\ EventComplete(call[t].ret)
    /\ (pc[t] = "ev_wait" /\ cgh[t].nodes = <<>>) => ENABLED EventWaitReturn(t)

ZeroNodeSubmitIsNoopWitness ==
  \E t \in Threads :
    /\ pc[t] = "ev_wait"
    /\ cgh[t].nodes = <<>>
    /\ call[t].nops = 0
    /\ \E n \in 1..numNodes : n \notin complete

\* C6: a submit whose callback recorded several operations returns the
\* node recorded last; on an in-order queue that node is the previous
\* submission; the nodes recorded before it are not the event's node and
\* stay owned until they are complete.
MultiNodeSubmitReturnsLast ==
  \A t \in Threads :
    (pc[t] \in AfterSubmit /\ Len(cgh[t].nodes) > 1) =>
      LET ns == cgh[t].nodes
      IN  /\ call[t].ret = ns[Len(ns)]
          /\ HasInOrderProperty(call[t].q) => previous[call[t].q] = ns[Len(ns)]
          /\ \A i \in DOMAIN ns :
               /\ ns[i] \in 1..numNodes
               /\ node[ns[i]].handle = (i = Len(ns))
               /\ ns[i] \in alive \/ ns[i] \in complete

MultiNodeSubmitReturnsLastWitness ==
  \E t \in Threads :
    /\ pc[t] = "ret"
    /\ Len(cgh[t].nodes) = 2
    /\ HasInOrderProperty(call[t].q)
    /\ previous[call[t].q] = cgh[t].nodes[2]
    /\ cgh[t].nodes[1] \in submitted

\* Positions of the entries of one kind in a handler's log.
LogIdx(log, kind) == {i \in DOMAIN log : log[i].kind = kind}

\* C7: in every submit the handler sees, in this order, the preferred
\* group sizes of the property list, then each hook that was registered
\* when the hooks ran, once and in registration order (increasing id), and
\* only then the user's callback.
HooksRunOnceInOrderBeforeCallback ==
  \A t \in Threads :
    pc[t] \in InSubmit \cup AfterSubmit \cup {"thrown"} =>
      LET log == cgh[t].log
          hk == SelectSeq(log, LAMBDA e : e.kind = "hook")
      IN  /\ [i \in DOMAIN hk |-> hk[i].id] = call[t].hooks
          /\ \A i \in DOMAIN hk, j \in DOMAIN hk : i < j => hk[i].id < hk[j].id
          /\ {log[i].id : i \in LogIdx(log, "pgs")} = call[t].pgs
          /\ Cardinality(LogIdx(log, "pgs")) = Cardinality(call[t].pgs)
          /\ \A i \in LogIdx(log, "pgs"), j \in LogIdx(log, "hook") : i < j
          /\ \A j \in LogIdx(log, "hook") \cup LogIdx(log, "pgs"),
                c \in LogIdx(log, "cgf") : j < c
          /\ Cardinality(LogIdx(log, "cgf")) = IF pc[t] = "cgf" THEN 0 ELSE 1

HooksRunOnceInOrderBeforeCallbackWitness ==
  \E t \in Threads :
    /\ pc[t] = "extract"
    /\ Len(call[t].hooks) = 2
    /\ call[t].hooks[1] > 1
    /\ call[t].pgs # {}
    /\ Len(cgh[t].log) >= 5

FailoverOnlyOnNewKernelError ==
  \A t \in Threads :
    (call[t].kind = "failover" /\ call[t].checked /\ call[t].threw1 = "none")
    => ((call[t].phase = "secondary") <=> (call[t].grew /\ call[t].newKernel))

\* C10: whenever a node is added to the registry, the tracked collection
\* afterwards is the nodes that were tracked and incomplete, in their
\* order, followed by the new node; so when every tracked node was
\* complete, exactly the new node is tracked.
AddPrunesCompleted ==
  [][ops' # ops =>
       LET kept == {n \in Range(ops) : n \notin complete}
           added == ops'[Len(ops')]
       IN  /\ Len(ops') = Cardinality(kept) + 1
           /\ added \notin Range(ops)
           /\ added \in submitted'
           /\ {ops'[i] : i \in 1..(Len(ops') - 1)} = kept
           /\ \A i \in 1..(Len(ops') - 1), j \in 1..(Len(ops') - 1) :
                i < j => \E a \in DOMAIN ops, b \in DOMAIN ops :
                           a < b /\ ops[a] = ops'[i] /\ ops[b] = ops'[j]
           /\ Range(ops) \subseteq complete => ops' = <<added>>]_vars

AddPrunesCompletedWitness ==
  /\ Len(ops) = 1
  /\ ops[1] \notin complete
  /\ Cardinality(complete) >= 2
  /\ \A n \in 1..(ops[1] - 1) : n \in complete

\* ---------------------------------------------------------------- registry claims
\* node n carries the node-group hint g
Tagged(n, g) == node[n].hints["node_group"] = g

\* thread t sits in the loop of a registry wait and cannot take a step:
\* it is inside node->wait()
Blocked(t) == pc[t] = "reg_wait" /\ ~ENABLED (NodeWait(t) \/ WaitReturn(t))

\* C11: when wait_for_group(g) has returned, every node of the collection
\* it copied that is tagged g is complete; while it runs it is blocked only
\* on an incomplete node tagged g, never on a node of another group or
\* without a group, so it is not blocked when the copied collection holds
\* no incomplete node tagged g.
WaitForGroupWaitsOnItsGroupOnly ==
  \A t \in Threads :
    call[t].kind = "wait_for_group" =>
      LET g == call[t].group
          cur == call[t].tracked
      IN  /\ pc[t] = "ret" =>
               \A i \in DOMAIN cur : Tagged(cur[i], g) => cur[i] \in complete
          /\ Blocked(t) =>
               /\ Tagged(cur[call[t].pos], g)
               /\ cur[call[t].pos] \notin complete
          /\ (\A i \in DOMAIN cur : Tagged(cur[i], g) => cur[i] \in complete)
               => ~Blocked(t)

\* wait_for_group(g) returned although a node of another group in its
\* snapshot is not complete; the snapshot's node of group g is
WaitForGroupWaitsOnItsGroupOnlyWitness ==
  \E t \in Threads :
    /\ call[t].kind = "wait_for_group"
    /\ pc[t] = "ret"
    /\ \E i, j \in DOMAIN call[t].tracked :
         /\ Tagged(call[t].tracked[i], call[t].group)
         /\ call[t].tracked[i] \in complete
         /\ node[call[t].tracked[j]].hints["node_group"]
              \in Groups \ {call[t].group}
         /\ call[t].tracked[j] \notin complete

\* C12: a thread blocked in the loop of a registry wait does not hold the
\* registry lock; the lock is held only inside the locked block, whose
\* step can always be taken; so while a waiter is blocked and the lock is
\* free, the runtime's add of the next node and any thread's get_group
\* (or snapshot) can take the lock.
RegistryLockNotHeldWhileBlocked ==
  /\ \A t \in Threads : Blocked(t) => opsLock # t
  /\ opsLock # NoThread => pc[opsLock] = "reg_locked"
  /\ \A t \in Threads :
       pc[t] = "reg_locked" =>
         opsLock = t /\ ENABLED (Snapshot(t) \/ GetGroupScan(t))
  /\ \A t \in Threads :
       (Blocked(t) /\ opsLock = NoThread) =>
         /\ \A n \in 1..numNodes :
              (n \notin submitted /\ \A d \in 1..(n - 1) : d \in submitted)
                => ENABLED RuntimeSubmit(n)
         /\ \A u \in Threads : pc[u] = "reg_lock" => ENABLED RegistryLock(u)

\* A waiter is still blocked on the first node of its snapshot while
\* another thread's get_group has returned a node that was added after
\* that snapshot was taken.
RegistryLockNotHeldWhileBlockedWitness ==
  \E t \in Threads, u \in Threads :
    /\ Blocked(t)
    /\ call[t].pos = 1
    /\ pc[u] = "ret"
    /\ call[u].kind = "get_group"
    /\ \E i \in DOMAIN call[u].result :
         call[u].result[i] \notin Range(call[t].tracked)

\* ---------------------------------------------------------------- helper claims
\* the hooks of helper h in the hook list of its queue
HooksOf(h) ==
  {i \in DOMAIN hooks[HelperQueue(h)] : hooks[HelperQueue(h)][i].helper = h}

HookRegisteredIffRequired ==
  \A h \in Helpers :
    /\ Cardinality(HooksOf(h)) = IF isRequired[h] THEN 1 ELSE 0
    /\ \A i \in HooksOf(h) : hooks[HelperQueue(h)][i].id = hookId[h]

\* C13: a helper has exactly one hook in its queue's hook list, the one
\* with its _hook_id, while _is_required is true and none while it is
\* false; the handler of every submit that begins on that queue runs the
\* hook of each required helper exactly once and no other hook; release
\* of a helper that is not required and reacquire of one that is required
\* change nothing.
HookLifecycle ==
  /\ []HookRegisteredIffRequired
  /\ [][/\ \A t \in Threads :
             (pc[t] = "lock" /\ pc'[t] = "cgf") =>
               LET log == cgh'[t].log
                   ran(h) == {i \in LogIdx(log, "hook") : log[i].id = hookId[h]}
               IN  /\ \A h \in Helpers :
                        HelperQueue(h) = call[t].q =>
                          Cardinality(ran(h)) = IF isRequired[h] THEN 1 ELSE 0
                   /\ \A i \in LogIdx(log, "hook") :
                        \E h \in Helpers :
                          /\ HelperQueue(h) = call[t].q
                          /\ isRequired[h]
                          /\ log[i].id = hookId[h]
        /\ \A h \in Helpers :
             /\ (Release(h) /\ ~isRequired[h]) => UNCHANGED hvars
             /\ (Reacquire(h) /\ isRequired[h]) => UNCHANGED hvars]_vars

\* A submit ran the hook of a required helper and not the hook of the
\* helper that was registered before it and has been released.
HookLifecycleWitness ==
  \E h \in Helpers, r \in Helpers :
    /\ pc[1] = "extract"
    /\ isRequired[h]
    /\ hookId[h] >= 2
    /\ hookId[r] = 1
    /\ ~isRequired[r]
    /\ call[1].hooks = <<hookId[h]>>

\* C14: the step in which get_group(g) scans the collection returns the
\* tracked nodes tagged g, in tracked order, complete or not, and changes
\* neither the tracked collection nor any node; get_group holds the lock
\* only for that step, which can always be taken (it waits on no node).
GetGroupReturnsTaggedNodesOnly ==
  /\ [](\A t \in Threads :
          (pc[t] = "reg_locked" /\ call[t].kind = "get_group")
            => ENABLED GetGroupScan(t))
  /\ [][\A t \in Threads :
          (call[t].kind = "get_group" /\ pc[t] = "reg_locked"
             /\ pc'[t] = "ret") =>
            /\ call'[t].result =
                 SelectSeq(ops, LAMBDA n : Tagged(n, call[t].group))
            /\ ops' = ops
            /\ UNCHANGED nvars]_vars

\* get_group returned a node that is complete and still tracked, and left
\* out a tracked node that is not tagged with the group
GetGroupReturnsTaggedNodesOnlyWitness ==
  \E t \in Threads :
    /\ pc[t] = "ret"
    /\ call[t].kind = "get_group"
    /\ Len(call[t].result) = 1
    /\ call[t].result[1] \in complete
    /\ Len(call[t].tracked) = 2
    /\ ops = call[t].tracked

\* ---------------------------------------------------------------- wait claims
QueueWaits == {"wait", "wait_and_throw"}

\* C15: queue::wait has done the global flush before it takes the
\* registry's snapshot, and is past the bulk wait only when every node of
\* that snapshot, whatever queue recorded it, is complete; wait_and_throw
\* hands the recorded errors to the handler in its last step, after the
\* bulk wait has returned, and at no other point.
WaitFlushesThenWaitsForAll ==
  /\ [](\A t \in Threads :
          call[t].kind \in QueueWaits =>
            /\ pc[t] \in {"reg_lock", "reg_locked", "reg_wait", "wt_throw",
                          "ret"} => call[t].flushed
            /\ pc[t] \in {"q_flush", "reg_lock", "reg_locked", "reg_wait"}
                 => ~call[t].waited
            /\ pc[t] \in {"wt_throw", "ret"} =>
                 /\ call[t].waited
                 /\ \A i \in DOMAIN call[t].tracked :
                      call[t].tracked[i] \in complete)
  /\ [][/\ (errors # <<>> /\ errors' = <<>>) =>
             \E t \in Threads :
               /\ call[t].kind = "wait_and_throw"
               /\ pc[t] = "wt_throw"
               /\ call[t].waited
               /\ pc'[t] = "ret"
        /\ \A t \in Threads :
             (pc[t] = "wt_throw" /\ pc'[t] = "ret") => errors' = <<>>]_vars

\* wait_and_throw on queue 2 has returned after waiting for a node that
\* queue 1 recorded, and has handed a recorded error to the handler
WaitFlushesThenWaitsForAllWitness ==
  \E t \in Threads :
    /\ pc[t] = "ret"
    /\ call[t].kind = "wait_and_throw"
    /\ \E i \in DOMAIN call[t].tracked : node[call[t].tracked[i]].q # call[t].q
    /\ numErrors > 0
    /\ errors = <<>>

\* C16: every tracked node is submitted, a node that enters the tracked
\* collection is submitted when it enters, and so is every node of the
\* copies the waits iterate over (get_group iterates over the tracked
\* collection itself): the assertions of lines 918, 930, 954 and 973 hold.
TrackedNodesAreSubmitted ==
  /\ [](/\ Range(ops) \subseteq submitted
        /\ \A t \in Threads :
             pc[t] = "reg_wait" => Range(call[t].current_ops) \subseteq submitted)
  /\ [][\A n \in Range(ops') \ Range(ops) : n \in submitted']_vars

\* a wait iterates over its copy, blocked on a node of it, while the
\* tracked collection has been given another node
TrackedNodesAreSubmittedWitness ==
  \E t \in Threads :
    /\ Blocked(t)
    /\ \E n \in Range(ops) : n \notin Range(call[t].current_ops)

\* C17: every node that has been handed to the registry and is not
\* complete is in the tracked collection, whichever adds, waits and group
\* queries have run.
IncompleteNodesStayTracked ==
  \A n \in submitted \ complete : n \in Range(ops)

\* an add has pruned a complete node, a group wait has returned, and the
\* node that is not complete is still tracked
IncompleteNodesStayTrackedWitness ==
  /\ \E n \in Range(ops) : n \notin complete
  /\ \E m \in complete : m \notin Range(ops)
  /\ \E t \in Threads : pc[t] = "ret" /\ call[t].kind = "wait_for_group"

\* ---------------------------------------------------------------- lock claims
QueueLocksHeld(t) == {q \in Queues : lock[q] = t}

\* thread t waits for a lock that thread u holds
WaitsFor(t, u) ==
  \/ pc[t] = "lock" /\ lock[call[t].q] = u
  \/ pc[t] \in {"reg_lock", "fo_flush", "q_flush"} /\ opsLock = u

\* C18: a thread holds at most one queue lock, and none while it holds the
\* registry lock; a thread that holds a lock is inside the locked block,
\* where it waits for no lock and can take a step; so no thread waits for
\* a lock held by a thread that itself waits for a lock.
LockDomainsAcyclic ==
  /\ \A t \in Threads : Cardinality(QueueLocksHeld(t)) <= 1
  /\ \A t \in Threads : opsLock = t => QueueLocksHeld(t) = {}
  /\ \A t \in Threads :
       QueueLocksHeld(t) # {} =>
         /\ pc[t] \in InSubmit
         /\ QueueLocksHeld(t) = {call[t].q}
         /\ ENABLED (Callback(t, 0, "none", Null, {}) \/ SubmitFinish(t))
  /\ \A t \in Threads :
       opsLock = t =>
         pc[t] = "reg_locked" /\ ENABLED (Snapshot(t) \/ GetGroupScan(t))
  /\ \A t \in Threads, u \in Threads :
       WaitsFor(t, u) => \A v \in Threads : ~WaitsFor(u, v)

\* A failover submit whose primary submission on queue 2 threw waits for
\* the lock of its secondary queue 1, which the other thread's failover
\* submit in the opposite direction holds; the waiting thread holds no lock.
LockDomainsAcyclicWitness ==
  \E t \in Threads, u \in Threads :
    /\ t # u
    /\ call[t].kind = "failover" /\ call[u].kind = "failover"
    /\ call[t].phase = "secondary"
    /\ call[t].sec # call[u].sec
    /\ WaitsFor(t, u)
    /\ QueueLocksHeld(t) = {}
    /\ call[u].phase = "primary"

\* the node has been handed to the registry: it is tracked, or it was and
\* an add has pruned it after it completed
Registered(n) == n \in submitted /\ (n \in Range(ops) \/ n \in complete)

\* the calls of queue::wait whose bulk wait has returned cover every node
\* a submit had returned before the call began
WaitCoversReturnedNodes ==
  \A t \in Threads :
    (call[t].kind \in QueueWaits /\ call[t].waited) =>
      \A n \in call[t].before : n \in complete

FoundExpired(t) ==
  /\ call[t].kind = "plain"
  /\ HasInOrderProperty(call[t].q)
  /\ call[t].last # Null
  /\ ~call[t].lastAlive

\* C20: the node an in-order queue refers to as its previous submission
\* can be reclaimed as soon as nothing else owns it; a submit that finds
\* the reference expired gives its handler no implicit dependency, fails
\* only if the callback throws, returns a node that does not depend on the
\* reclaimed one, and leaves the reference pointing to the new node.
PreviousSubmissionIsWeak ==
  /\ \A q \in Queues :
       LET n == previous[q]
       IN  (/\ n \in alive
            /\ n \in complete
            /\ n \notin Range(ops)
            /\ \A t \in Threads : ~HeldByCall(t, n)
            /\ \A m \in alive \ complete : n \notin node[m].deps)
             => ENABLED Reclaim(n)
  /\ \A t \in Threads :
       FoundExpired(t) =>
         /\ pc[t] \in InSubmit \cup AfterSubmit \cup {"thrown"}
         /\ pc[t] = "thrown" => LogIdx(cgh[t].log, "cgf") # {}
         /\ call[t].prev = Null
         /\ LogIdx(cgh[t].log, "depends_on") = {}
         /\ cgh[t].deps \subseteq alive
         /\ (pc[t] \in AfterSubmit /\ call[t].ret # Null) =>
              /\ node[call[t].ret].pred = Null
              /\ call[t].last \notin node[call[t].ret].deps
              /\ previous[call[t].q] = call[t].ret

\* a submit on the in-order queue has returned a new node after it found
\* the queue's previous submission reclaimed
PreviousSubmissionIsWeakWitness ==
  \E t \in Threads :
    /\ FoundExpired(t)
    /\ pc[t] = "ret"
    /\ call[t].ret # Null
    /\ call[t].last \notin alive
    /\ previous[call[t].q] = call[t].ret

\* ---------------------------------------------------------------- failover claims
\* C21: a call of submit(cgf, secondaryQueue) begins at most one submit on
\* the primary queue, exactly one by the time it is over, and at most one
\* on the secondary queue, so it invokes cgf at most twice; an exception
\* that the submission to the secondary queue raises leaves the call.
FailoverSubmitsOncePerQueue ==
  \A t \in Threads :
    call[t].kind = "failover" =>
      /\ call[t].nPrimary <= 1
      /\ call[t].nSecondary <= 1
      /\ call[t].ncgf <= 2
      /\ pc[t] \in {"ret", "thrown"} => call[t].nPrimary = 1
      /\ call[t].threw2 # "none" =>
           pc[t] = "thrown" /\ call[t].raised = call[t].threw2

\* the primary submission of thread t's failover submit threw nothing and
\* the two readings of the error count agree
PrimaryWentThrough(t) ==
  /\ call[t].kind = "failover"
  /\ call[t].checked
  /\ call[t].threw1 = "none"
  /\ call[t].errEnd = call[t].errBegin

\* C22: when the primary submission of a failover submit threw nothing and
\* the error count read after the flush equals the one read before the
\* submission, the call returns the event of the primary submission, has
\* invoked cgf once, and has begun no submit on the secondary queue, whose
\* _previous_submission is what it was when the call began and whose lock
\* is free.
FailoverWithoutErrorReturnsPrimary ==
  \A t \in Threads :
    PrimaryWentThrough(t) =>
      /\ pc[t] = "ret"
      /\ call[t].phase = "primary"
      /\ call[t].ret = call[t].evt1
      /\ call[t].ret = ExtractDagNode(cgh[t].nodes)
      /\ call[t].ret # Null => node[call[t].ret].q = call[t].q
      /\ call[t].ncgf = 1
      /\ call[t].nPrimary = 1
      /\ call[t].nSecondary = 0
      /\ previous[call[t].sec] = call[t].secPrev
      /\ lock[call[t].sec] = NoThread

\* the call returned the primary's node although the error list holds a
\* kernel error recorded before the call, and the in-order secondary queue
\* still refers to its own earlier submission
FailoverWithoutErrorReturnsPrimaryWitness ==
  \E t \in Threads :
    /\ PrimaryWentThrough(t)
    /\ pc[t] = "ret"
    /\ call[t].ret # Null
    /\ call[t].errBegin > 0
    /\ \E i \in DOMAIN errors : errors[i].type = "kernel_error"
    /\ call[t].secPrev # Null

\* ---------------------------------------------------------------- exception claims
\* the submit call of thread t runs on an in-order queue whose latest call
\* threw, after an earlier call had extracted a node that is still owned
AfterThrow(t) ==
  /\ call[t].kind = "plain"
  /\ HasInOrderProperty(call[t].q)
  /\ pc[t] \in InSubmit \cup AfterSubmit \cup {"thrown"}
  /\ call[t].last = Null
  /\ call[t].lastOk # Null
  /\ call[t].lastOkAlive

\* C23: the step in which the callback of a plain submit throws hands the
\* exception to the caller, releases the queue's lock and changes neither
\* _previous_submission nor _default_hints, so an in-order queue always
\* refers to the node its latest call that did not throw extracted; a
\* submit waiting for the lock can take it whenever no call is inside
\* submit; and a submit that follows a throwing one on an in-order queue
\* depends on that node.
SubmitThrowLeavesQueueUsable ==
  /\ [](/\ \A t \in Threads :
             (pc[t] = "thrown" /\ call[t].kind = "plain") =>
               /\ call[t].raised # "none"
               /\ \A q \in Queues : lock[q] # t
        /\ \A q \in Queues :
             HasInOrderProperty(q) => previous[q] = extracted[q]
        /\ \A t \in Threads :
             (pc[t] = "lock" /\ \A u \in Threads : pc[u] \notin InSubmit)
               => ENABLED SubmitBegin(t)
        /\ \A t \in Threads :
             AfterThrow(t) =>
               /\ call[t].prev = call[t].lastOk
               /\ call[t].lastOk \in cgh[t].deps
               /\ (pc[t] \in AfterSubmit /\ call[t].ret # Null) =>
                    call[t].lastOk \in node[call[t].ret].deps)
  /\ [][\A t \in Threads :
          (call[t].kind = "plain" /\ pc[t] = "cgf" /\ pc'[t] = "thrown") =>
            /\ previous' = previous
            /\ defaultHints' = defaultHints
            /\ lock'[call[t].q] = NoThread
            /\ call'[t].raised # "none"]_vars

\* a submit on the in-order queue returned a node that depends on the node
\* extracted before the queue's latest call threw
SubmitThrowLeavesQueueUsableWitness ==
  \E t \in Threads :
    /\ AfterThrow(t)
    /\ pc[t] = "ret"
    /\ call[t].ret # Null
    /\ call[t].lastOk \in node[call[t].ret].deps

\* the submit call of thread t runs on an in-order queue whose latest call
\* that did not throw extracted no node
AfterEmpty(t) ==
  /\ call[t].kind = "plain"
  /\ HasInOrderProperty(call[t].q)
  /\ pc[t] \in InSubmit \cup AfterSubmit \cup {"thrown"}
  /\ call[t].lastOk = Null

\* C24: when the latest submit on an in-order queue that did not throw
\* extracted no node, the queue's _previous_submission is empty, and the
\* next submit on the queue gives its handler no implicit dependency: the
\* node it returns depends on no earlier node, whatever nodes earlier
\* submits on the queue returned and whether or not they are complete.
EmptySubmitClearsPrevious ==
  /\ \A q \in Queues :
       (HasInOrderProperty(q) /\ extracted[q] = Null) => previous[q] = Null
  /\ \A t \in Threads :
       AfterEmpty(t) =>
         /\ call[t].prev = Null
         /\ LogIdx(cgh[t].log, "depends_on") = {}
         /\ cgh[t].deps = {}
         /\ (pc[t] \in AfterSubmit /\ call[t].ret # Null) =>
              /\ node[call[t].ret].pred = Null
              /\ node[call[t].ret].deps = {}

\* a submit on the in-order queue returned a node without dependencies
\* although a node that an earlier submit on the queue returned is still
\* owned and not complete
EmptySubmitClearsPreviousWitness ==
  \E t \in Threads :
    /\ AfterEmpty(t)
    /\ pc[t] = "ret"
    /\ call[t].ret # Null
    /\ \E m \in alive \ complete :
         /\ m < call[t].ret
         /\ node[m].q = call[t].q
         /\ node[m].handle

\* ---------------------------------------------------------------- retarget claims
\* C25: whatever submits have run, with or without a retarget property,
\* every queue's default hints are those its constructor set, get_device
\* answers the device it was constructed on, two queues are equal exactly
\* if they were when constructed, and a submit without a retarget property
\* builds its handler, and records its nodes, bound to that device.
RetargetIsOneShot ==
  /\ \A q \in Queues :
       /\ defaultHints[q] =
            QueueInitHints(QueueDevice(q), HasProfilingProperty(q))
       /\ GetDevice(q) = QueueDevice(q)
  /\ \A q \in Queues, r \in Queues :
       (defaultHints[q] = defaultHints[r]) <=>
         (QueueInitHints(QueueDevice(q), HasProfilingProperty(q)) =
            QueueInitHints(QueueDevice(r), HasProfilingProperty(r)))
  /\ \A t \in Threads :
       (pc[t] \in InSubmit \cup AfterSubmit /\ call[t].retarget = Null) =>
         /\ cgh[t].hints["bind_to_device"] = QueueDevice(call[t].q)
         /\ \A i \in DOMAIN cgh[t].nodes :
              node[cgh[t].nodes[i]].hints["bind_to_device"]
                = QueueDevice(call[t].q)

\* a submit without a retarget property recorded a node bound to the
\* queue's own device after a submit on the same queue had recorded a node
\* retargeted to the other device
RetargetIsOneShotWitness ==
  \E t \in Threads :
    /\ pc[t] = "ret"
    /\ call[t].retarget = Null
    /\ call[t].ret # Null
    /\ node[call[t].ret].hints["bind_to_device"] = QueueDevice(call[t].q)
    /\ \E m \in 1..numNodes :
         /\ m < call[t].ret
         /\ node[m].q = call[t].q
         /\ node[m].hints["bind_to_device"] # QueueDevice(call[t].q)

\* C26: wait_for_all works on the collection it copied: the copy stays
\* what the tracked collection was at the copy, whatever adds prune or
\* append afterwards; the call is blocked only on an incomplete node of
\* the copy, so it is not blocked once every node of the copy is complete,
\* and has returned only then.
WaitForAllWaitsOnItsSnapshot ==
  \A t \in Threads :
    call[t].kind = "wait_for_all" =>
      LET cur == call[t].tracked
      IN  /\ pc[t] \in {"reg_wait", "ret"} => call[t].current_ops = cur
          /\ Blocked(t) =>
               /\ call[t].pos \in DOMAIN cur
               /\ cur[call[t].pos] \notin complete
          /\ (\A i \in DOMAIN cur : cur[i] \in complete) => ~Blocked(t)
          /\ pc[t] = "ret" => \A i \in DOMAIN cur : cur[i] \in complete

\* wait_for_all has returned while a node added after its snapshot is
\* tracked and not complete, and a node of its snapshot has been pruned
WaitForAllWaitsOnItsSnapshotWitness ==
  \E t \in Threads :
    /\ call[t].kind = "wait_for_all"
    /\ pc[t] = "ret"
    /\ \E n \in Range(ops) : n \notin Range(call[t].tracked) /\ n \notin complete
    /\ \E m \in Range(call[t].tracked) : m \notin Range(ops)

====
